---- MODULE Spec2Model ----
(***************************************************************************)
(* DeepEqualExplained (src/deepequalexplained.go): a reflection walk over  *)
(* two Go values that returns nil when they are deeply equal and otherwise *)
(* an error whose text is the path to the first difference and a reason.   *)
(*                                                                         *)
(* Memory is a heap of cells, one per Go variable (a struct, each of its   *)
(* fields, each element of a slice's backing array, a map object, ...).    *)
(* A cell's address is its index in the heap, so addresses are totally     *)
(* ordered as uintptr values are.  A reflect.Value is a cell address and   *)
(* the addressable flag that reflect derives from the way the value was    *)
(* reached.  The recursion of deepValueEqual is an explicit stack of       *)
(* frames; one action runs a frame from its entry to its first recursive   *)
(* call or return, one runs a loop iteration, one resumes the caller.      *)
(*                                                                         *)
(* An error is the sequence of the pieces that the nested fmt.Errorf calls *)
(* put together: the Go string is their concatenation.                     *)
(***************************************************************************)
EXTENDS Integers, Sequences, FiniteSets, TLC

VARIABLES
    heap,     \* the memory the two arguments live in (never written by the walk)
    x, y,     \* the arguments of DeepEqualExplained: a cell address, 0 for a nil interface
    pc,       \* "call" | "run" | "done" | "overflow"
    stack,    \* the frames of deepValueEqual, innermost last
    ret,      \* the value a frame has just returned to its caller
    visited,  \* the map[visit]bool of the call
    result,   \* what DeepEqualExplained returned
    entered,  \* history: the value pairs whose children the walk started to compare
    calls,    \* how many times DeepEqualExplained was called on these arguments
    first     \* history: what the first of them returned

vars == <<heap, x, y, pc, stack, ret, visited, result, entered, calls, first>>

-----------------------------------------------------------------------------
(* Bounds *)

\* Frames the goroutine stack holds before the runtime ends the program with
\* "stack overflow".
StackLimit == 12

\* Node variables in the linked-structure inputs.
NumNodes == 2

\* Length of the backing array the slice inputs are views of.
BackLen == 2

\* Length of the array inputs.
ArrLen == 2

-----------------------------------------------------------------------------
(* Floating-point values.  A NaN is not a number and has a payload; two    *)
(* NaNs with different payloads are different bit patterns.                *)

Num(n) == [nan |-> FALSE, n |-> n]
NaN(p) == [nan |-> TRUE, n |-> p]

\* math.IsNaN
IsNaN(f) == f.nan

\* fmt's %v of a float: the shortest decimal that reads back as the same
\* number, and "NaN" for every NaN whatever its payload.
Render(f) == IF f.nan THEN "NaN" ELSE ToString(f.n)

FloatNums == {1, 2}
Floats == {Num(n) : n \in FloatNums} \cup {NaN(1)}

-----------------------------------------------------------------------------
(* Cells *)

NoVal == Num(0)

Cell(kind, typ, val, ptr, len, kids, ents) ==
    [kind |-> kind, typ |-> typ, val |-> val, ptr |-> ptr, len |-> len,
     kids |-> kids, ents |-> ents]

\* A float64 or float32 variable.
FloatCell(typ, f) ==
    Cell(IF typ = "float32" THEN "Float32" ELSE "Float64", typ, f, 0, 0, <<>>, {})
\* A pointer variable; ptr = 0 is nil.
PtrCell(typ, to) == Cell("Ptr", typ, NoVal, to, 0, <<>>, {})
\* A struct variable; kids are the addresses of its fields in declaration order.
StructCell(typ, kids) == Cell("Struct", typ, NoVal, 0, 0, kids, {})
\* An array variable; kids are the addresses of its elements.
ArrayCell(typ, kids) == Cell("Array", typ, NoVal, 0, 0, kids, {})
\* A slice header: ptr is the address of its first element (0: nil slice),
\* the elements are the len cells from there on.
SliceCell(typ, data, len) == Cell("Slice", typ, NoVal, data, len, <<>>, {})
\* A map variable: ptr is the address of the map object (0: nil map).
MapCell(typ, h) == Cell("Map", typ, NoVal, h, 0, <<>>, {})
\* A map object: ents is the set of its <<key, address of the value>> entries.
HmapCell(ents) == Cell("hmap", "", NoVal, 0, 0, <<>>, ents)
\* An interface variable; ptr is the cell holding its dynamic value (0: nil).
IfaceCell(elem) == Cell("Interface", "interface {}", NoVal, elem, 0, <<>>, {})
\* A func variable; ptr = 0 is a nil func.
FuncCell(code) == Cell("Func", "func()", NoVal, code, 0, <<>>, {})

\* The declared types that have a name: reflect.Type.Name() is "" for the others.
NamedTypes == {"float64", "float32", "Node", "M", "P", "S"}
TypeName(typ) == IF typ \in NamedTypes THEN typ ELSE ""

\* reflect.Type.Field(i).Name
FieldName(typ, i) == IF typ = "Node" THEN <<"Val", "Next">>[i + 1] ELSE "?"


-----------------------------------------------------------------------------
(* reflect.Value: the cell it denotes (0: the zero Value) and whether it   *)
(* is addressable.                                                         *)

Value(node, addr) == [node |-> node, addr |-> addr]
ZeroValue == Value(0, FALSE)

\* reflect.ValueOf(x): a copy of the argument, never addressable.
ValueOf(a) == Value(a, FALSE)

IsValid(v) == v.node # 0
Type(v) == heap[v.node].typ
Kind(v) == heap[v.node].kind
CanAddr(v) == v.addr
UnsafeAddr(v) == v.node

\* Value.IsNil of a slice, map, interface or func.
IsNil(v) == heap[v.node].ptr = 0

\* Value.Pointer of a slice (its first element), a map (its object) or a pointer.
Pointer(v) == heap[v.node].ptr

\* Value.Len of an array, a slice or a map.
ValueLen(v) ==
    CASE Kind(v) = "Array" -> Len(heap[v.node].kids)
      [] Kind(v) = "Slice" -> heap[v.node].len
      [] Kind(v) = "Map" ->
            IF IsNil(v) THEN 0 ELSE Cardinality(heap[Pointer(v)].ents)

\* Value.NumField of a struct.
NumField(v) == Len(heap[v.node].kids)

\* Value.Index(i): an array's element is addressable when the array is, a
\* slice's element always.
Index(v, i) ==
    IF Kind(v) = "Array" THEN Value(heap[v.node].kids[i + 1], v.addr)
    ELSE Value(heap[v.node].ptr + i, TRUE)

\* Value.Field(i): addressable when the struct is.
Field(v, i) == Value(heap[v.node].kids[i + 1], v.addr)

\* Value.Elem: what a pointer points to is addressable, what an interface
\* holds is not; the Elem of a nil pointer is the zero Value.
Elem(v) ==
    IF Kind(v) = "Ptr" THEN Value(heap[v.node].ptr, TRUE)
    ELSE Value(heap[v.node].ptr, FALSE)

\* Value.MapKeys, as a set: the order of the slice it returns is unspecified.
MapKeys(v) == IF IsNil(v) THEN {} ELSE {e[1] : e \in heap[Pointer(v)].ents}

\* Value.MapIndex(k): the zero Value when the map has no entry equal to k; a
\* NaN key equals no key.  The element is a copy, not addressable.
MapIndex(v, k) ==
    LET hit == IF IsNil(v) \/ IsNaN(k) THEN {}
               ELSE {e \in heap[Pointer(v)].ents : e[1] = k}
    IN  IF hit = {} THEN ZeroValue ELSE Value((CHOOSE e \in hit : TRUE)[2], FALSE)

-----------------------------------------------------------------------------
(* What a frame returns.  site is the source line of the return statement  *)
(* that produced the value (history, as is pos: the steps that lead from   *)
(* the root to the place the error is about).                              *)

Equal(site) == [st |-> "nil", msg |-> <<>>, site |-> site, pos |-> <<>>]
Errorf(site, text) == [st |-> "err", msg |-> <<text>>, site |-> site, pos |-> <<>>]
\* Not a return: the frame goes on to compare its children.
Go == [st |-> "go", msg |-> <<>>, site |-> 0, pos |-> <<>>]

\* One step of a path: into element i ("index"), into field i ("field"), into
\* the entry of key k ("key"), through a pointer ("ptr") or an interface ("iface").
\* name is the declared name of the field.
Step(t, i, k, name) == [t |-> t, i |-> i, k |-> k, name |-> name]

\* deepValueEqual, lines 23-34: zero Values and the types.
CheckValid(v1, v2) ==
    IF ~IsValid(v1) \/ ~IsValid(v2) THEN
        IF IsValid(v1) = IsValid(v2) THEN Equal(25)
        ELSE IF ~IsValid(v1) THEN Errorf(27, " in x is invalid but in y is not")
        ELSE Errorf(29, " in y is invalid but in x is not")
    ELSE IF Type(v1) # Type(v2) THEN
        Errorf(33, " has different types, where in x is " \o TypeName(Type(v1))
                   \o " but in y is " \o TypeName(Type(v2)))
    ELSE Go

\* hard as it would be with reflect.Struct left out of line 38.
hardNoStruct(k) == k \in {"Array", "Map", "Slice"}

\* hard, lines 36-42.
hard(k) == k \in {"Array", "Map", "Slice", "Struct"}

\* Line 44: the pairs the cycle detector records.
Tracked(v1, v2) == CanAddr(v1) /\ CanAddr(v2) /\ hard(Kind(v1))

\* The key as it would be without the swap of lines 47-51.
VisitKeyUnordered(v1, v2) == <<UnsafeAddr(v1), UnsafeAddr(v2), Type(v1)>>

\* Lines 45-55: the key, its addresses in increasing order.
VisitKey(v1, v2) ==
    LET addr1 == UnsafeAddr(v1)
        addr2 == UnsafeAddr(v2)
    IN  IF addr1 > addr2 THEN <<addr2, addr1, Type(v1)>>
        ELSE <<addr1, addr2, Type(v1)>>

\* fmt's %T of a reflect.Value: the type of the argument itself, which is
\* reflect.Value whatever the Value holds.
FmtT(v) == "reflect.Value"

\* The default case as it would be with == for != in line 159.
CompareLeafInverted(v1, v2) ==
    LET f1 == heap[v1.node].val
        f2 == heap[v2.node].val
    IN  IF Kind(v1) = "Float64" /\ IsNaN(f1) THEN Errorf(154, " in x is NaN float")
        ELSE IF Kind(v2) = "Float64" /\ IsNaN(f2) THEN Errorf(156, " in y is NaN float")
        ELSE IF Render(f1) = Render(f2) THEN
            Errorf(160, " are not equal, where in x is " \o Render(f1)
                        \o " but in y is " \o Render(f2))
        ELSE Equal(162)

\* The default case, lines 152-162: the leaves.  %v prints the value a
\* reflect.Value holds.
CompareLeaf(v1, v2) ==
    LET f1 == heap[v1.node].val
        f2 == heap[v2.node].val
    IN  IF Kind(v1) = "Float64" /\ IsNaN(f1) THEN Errorf(154, " in x is NaN float")
        ELSE IF Kind(v2) = "Float64" /\ IsNaN(f2) THEN Errorf(156, " in y is NaN float")
        ELSE IF FmtT(v1) # FmtT(v2) THEN
            Errorf(158, " have different types, where in x is " \o FmtT(v1)
                        \o " but in y is " \o FmtT(v2))
        ELSE IF Render(f1) # Render(f2) THEN
            Errorf(160, " are not equal, where in x is " \o Render(f1)
                        \o " but in y is " \o Render(f2))
        ELSE Equal(162)

\* The keys line 133 ranges over (none for another kind).
MapKeysOf(v) == IF Kind(v) = "Map" THEN MapKeys(v) ELSE {}

\* case reflect.Slice as it would be without lines 83-85.
SliceCaseNoShortcut(v1, v2) ==
    IF IsNil(v1) # IsNil(v2) THEN
        IF IsNil(v1) THEN Errorf(75, " in x is nil but in y is not")
        ELSE Errorf(77, " in y is nil but in x is not")
    ELSE IF ValueLen(v1) # ValueLen(v2) THEN Errorf(81, " do not have the same length")
    ELSE Go

\* case reflect.Slice as it would be with lines 80-82 before lines 73-79.
SliceCaseLenFirst(v1, v2) ==
    IF ValueLen(v1) # ValueLen(v2) THEN Errorf(81, " do not have the same length")
    ELSE IF IsNil(v1) # IsNil(v2) THEN
        IF IsNil(v1) THEN Errorf(75, " in x is nil but in y is not")
        ELSE Errorf(77, " in y is nil but in x is not")
    ELSE IF Pointer(v1) = Pointer(v2) THEN Equal(84)
    ELSE Go

\* case reflect.Slice, lines 73-85, up to the loop.
SliceCase(v1, v2) ==
    IF IsNil(v1) # IsNil(v2) THEN
        IF IsNil(v1) THEN Errorf(75, " in x is nil but in y is not")
        ELSE Errorf(77, " in y is nil but in x is not")
    ELSE IF ValueLen(v1) # ValueLen(v2) THEN Errorf(81, " do not have the same length")
    ELSE IF Pointer(v1) = Pointer(v2) THEN Equal(84)
    ELSE Go

\* case reflect.Interface, lines 93-99, up to the recursive call.
InterfaceCase(v1, v2) ==
    IF IsNil(v1) \/ IsNil(v2) THEN
        IF IsNil(v1) = IsNil(v2) THEN Equal(95)
        ELSE Errorf(97, " do not have the same interface")
    ELSE Go

\* case reflect.Ptr, lines 105-107, up to the recursive call.
PtrCase(v1, v2) == IF Pointer(v1) = Pointer(v2) THEN Equal(106) ELSE Go

\* case reflect.Map as it would be without lines 127-129.
MapCaseNoLen(v1, v2) ==
    IF IsNil(v1) # IsNil(v2) THEN
        IF IsNil(v1) THEN Errorf(122, " are not equal, where in x is nil but in y is not")
        ELSE Errorf(124, " are not equal, where in y is nil but in x is not")
    ELSE IF Pointer(v1) = Pointer(v2) THEN Equal(131)
    ELSE Go

\* case reflect.Map, lines 120-132, up to the loop.
MapCase(v1, v2) ==
    IF IsNil(v1) # IsNil(v2) THEN
        IF IsNil(v1) THEN Errorf(122, " are not equal, where in x is nil but in y is not")
        ELSE Errorf(124, " are not equal, where in y is nil but in x is not")
    ELSE IF ValueLen(v1) # ValueLen(v2) THEN
        Errorf(128, " do not have the same length, where in x is "
                    \o ToString(ValueLen(v1)) \o " but in y is " \o ToString(ValueLen(v2)))
    ELSE IF Pointer(v1) = Pointer(v2) THEN Equal(131)
    ELSE Go

\* case reflect.Func, lines 146-150.
FuncCase(v1, v2) ==
    IF IsNil(v1) /\ IsNil(v2) THEN Equal(147) ELSE Errorf(150, " has different func")

\* The switch of line 64, up to the first recursive call of each case.
KindSwitch(v1, v2) ==
    CASE Kind(v1) = "Array" -> Go
      [] Kind(v1) = "Slice" -> SliceCase(v1, v2)
      [] Kind(v1) = "Interface" -> InterfaceCase(v1, v2)
      [] Kind(v1) = "Ptr" -> PtrCase(v1, v2)
      [] Kind(v1) = "Struct" -> Go
      [] Kind(v1) = "Map" -> MapCase(v1, v2)
      [] Kind(v1) = "Func" -> FuncCase(v1, v2)
      [] OTHER -> CompareLeaf(v1, v2)

-----------------------------------------------------------------------------
(* Frames.  st is where the frame stands: "enter" (called, nothing run),   *)
(* "loop" (at the head of its loop over children, i of them compared) or   *)
(* "wait" (in a recursive call).  keys are the map keys not yet iterated,  *)
(* cur the child being compared; path (history) the steps from the root.   *)

NoStep == Step("", 0, NoVal, "")
Frame(v1, v2, path) ==
    [v1 |-> v1, v2 |-> v2, st |-> "enter", i |-> 0, keys |-> {}, cur |-> NoStep,
     path |-> path]
NoFrame == Frame(ZeroValue, ZeroValue, <<>>)

Top == stack[Len(stack)]
Pop == SubSeq(stack, 1, Len(stack) - 1)

\* The frame f returns r: r reaches the caller with the frame that produced it.
Return(f, r) ==
    /\ ret' = [st |-> r.st, msg |-> r.msg, site |-> r.site, pos |-> r.pos,
               from |-> f, own |-> TRUE]
    /\ stack' = Pop
    /\ pc' = pc

NoReturn ==
    [st |-> "none", msg |-> <<>>, site |-> 0, pos |-> <<>>, from |-> NoFrame,
     own |-> FALSE]

\* An error about the frame's own pair.
At(f, r) == [r EXCEPT !.pos = f.path]

\* The recursive call deepValueEqual(c1, c2, visited, depth+1) from frame f:
\* a frame more on the stack, or the end of the program when the stack is full.
Recurse(f, c1, c2, step, rest) ==
    IF Len(stack) >= StackLimit THEN
        /\ pc' = "overflow"
        /\ UNCHANGED <<stack, ret>>
    ELSE
        /\ stack' = Append([stack EXCEPT ![Len(stack)] =
                                [f EXCEPT !.st = "wait", !.cur = step, !.keys = rest]],
                           Frame(c1, c2, Append(f.path, step)))
        /\ UNCHANGED <<ret, pc>>

\* DeepEqualExplained, lines 167-182.
Call ==
    /\ pc = "call"
    /\ UNCHANGED <<heap, x, y, ret, entered, calls, first>>
    /\ IF x = 0 \/ y = 0 THEN
            /\ result' = [NoReturn EXCEPT
                            !.st = IF x = y THEN "nil" ELSE "err",
                            !.site = IF x = y THEN 170 ELSE IF x = 0 THEN 172 ELSE 174,
                            !.msg = IF x = y THEN <<>>
                                    ELSE IF x = 0 THEN <<"x is nil while y is not">>
                                    ELSE <<"y is nil while x is not">>]
            /\ pc' = "done"
            /\ UNCHANGED <<stack, visited>>
       ELSE IF Type(ValueOf(x)) # Type(ValueOf(y)) THEN
            /\ result' = [NoReturn EXCEPT
                            !.st = "err", !.site = 180,
                            !.msg = <<"values have different types, where in x is "
                                      \o TypeName(Type(ValueOf(x))) \o " but in y is "
                                      \o TypeName(Type(ValueOf(y)))>>]
            /\ pc' = "done"
            /\ UNCHANGED <<stack, visited>>
       ELSE
            /\ stack' = <<Frame(ValueOf(x), ValueOf(y), <<>>)>>
            /\ visited' = {}
            /\ pc' = "run"
            /\ UNCHANGED result

\* deepValueEqual from its entry to the head of its loop, lines 23-64, or to
\* the return it reaches before any recursive call.
Enter ==
    /\ pc = "run" /\ ret.st = "none" /\ stack # <<>> /\ Top.st = "enter"
    /\ UNCHANGED <<heap, x, y, result, calls, first>>
    /\ LET f == Top
           pre == CheckValid(f.v1, f.v2)
       IN  IF pre.st # "go" THEN
                Return(f, At(f, pre)) /\ UNCHANGED <<visited, entered>>
           ELSE IF Tracked(f.v1, f.v2) /\ VisitKey(f.v1, f.v2) \in visited THEN
                Return(f, Equal(57)) /\ UNCHANGED <<visited, entered>>
           ELSE
                /\ visited' = IF Tracked(f.v1, f.v2)
                              THEN visited \cup {VisitKey(f.v1, f.v2)}
                              ELSE visited
                /\ LET d == KindSwitch(f.v1, f.v2)
                   IN  IF d.st # "go" THEN
                            Return(f, At(f, d)) /\ UNCHANGED entered
                       ELSE
                            /\ stack' = [stack EXCEPT ![Len(stack)] =
                                            [f EXCEPT !.st = "loop",
                                                      !.keys = MapKeysOf(f.v1)]]
                            /\ entered' = Append(entered, <<f.v1, f.v2>>)
                            /\ UNCHANGED <<ret, pc>>

\* One iteration of the frame's loop over its children with the map key k (when
\* the frame compares maps): the recursive call, or the return after the loop.
Iterate(f, k) ==
    LET v1 == f.v1
        v2 == f.v2
    IN  CASE Kind(v1) = "Array" ->
                IF f.i < ValueLen(v1)
                THEN Recurse(f, Index(v1, f.i), Index(v2, f.i), Step("index", f.i, NoVal, ""), {})
                ELSE Return(f, Equal(71))
          [] Kind(v1) = "Slice" ->
                IF f.i < ValueLen(v1)
                THEN Recurse(f, Index(v1, f.i), Index(v2, f.i), Step("index", f.i, NoVal, ""), {})
                ELSE Return(f, Equal(91))
          [] Kind(v1) = "Interface" ->
                IF f.i = 0
                THEN Recurse(f, Elem(v1), Elem(v2), Step("iface", 0, NoVal, ""), {})
                ELSE Return(f, Equal(103))
          [] Kind(v1) = "Ptr" ->
                IF f.i = 0
                THEN Recurse(f, Elem(v1), Elem(v2), Step("ptr", 0, NoVal, ""), {})
                ELSE Return(f, Equal(111))
          [] Kind(v1) = "Struct" ->
                IF f.i < NumField(v1)
                THEN Recurse(f, Field(v1, f.i), Field(v2, f.i),
                             Step("field", f.i, NoVal, FieldName(Type(v1), f.i)), {})
                ELSE Return(f, Equal(118))
          [] Kind(v1) = "Map" ->
                IF f.keys = {} THEN Return(f, Equal(144))
                ELSE LET val1 == MapIndex(v1, k)
                         val2 == MapIndex(v2, k)
                         here == Append(f.path, Step("key", 0, k, ""))
                     IN  IF ~IsValid(val1) THEN
                            Return(f, [Errorf(137, " is invalid in x") EXCEPT
                                        !.msg = <<"[" \o Render(k) \o "]">> \o @,
                                        !.pos = here])
                         ELSE IF ~IsValid(val2) THEN
                            Return(f, [Errorf(139, " is invalid in y") EXCEPT
                                        !.msg = <<"[" \o Render(k) \o "]">> \o @,
                                        !.pos = here])
                         ELSE Recurse(f, val1, val2, Step("key", 0, k, ""), f.keys \ {k})

\* The loop heads of lines 66, 86, 100, 108, 113 and 133.  A map's keys come
\* in the order MapKeys returned them: any order.
Descend ==
    /\ pc = "run" /\ ret.st = "none" /\ stack # <<>> /\ Top.st = "loop"
    /\ UNCHANGED <<heap, x, y, result, visited, entered, calls, first>>
    /\ \E k \in (IF Top.keys = {} THEN {NoVal} ELSE Top.keys) : Iterate(Top, k)

\* The locator a frame puts in front of its child's error (lines 68, 88, 101,
\* 109, 115 and 141).
Locator(f) ==
    CASE Kind(f.v1) \in {"Array", "Slice"} -> "[" \o ToString(f.i) \o "]"
      [] Kind(f.v1) = "Interface" -> "(Interface)"
      [] Kind(f.v1) = "Ptr" -> "(Ptr)"
      [] Kind(f.v1) = "Struct" -> "." \o FieldName(Type(f.v1), f.i)
      [] Kind(f.v1) = "Map" -> "[" \o Render(f.cur.k) \o "]"

\* The error as it would be with the verbs of the format in the other order.
WrapAfter(f, msg) == msg \o <<Locator(f)>>

\* The error a frame returns when its child returned the error msg.
Wrap(f, msg) == <<Locator(f)>> \o msg

\* A recursive call came back: on nil the loop goes on, on an error the frame
\* returns it with its locator in front.
Resume ==
    /\ pc = "run" /\ ret.st # "none" /\ stack # <<>>
    /\ UNCHANGED <<heap, x, y, result, visited, entered, calls, first, pc>>
    /\ LET f == Top
       IN  IF ret.st = "nil" THEN
                /\ stack' = [stack EXCEPT ![Len(stack)] =
                                [f EXCEPT !.st = "loop", !.i = f.i + 1, !.cur = NoStep]]
                /\ ret' = NoReturn
           ELSE
                /\ ret' = [ret EXCEPT !.msg = Wrap(f, ret.msg), !.from = f, !.own = FALSE]
                /\ stack' = Pop

\* DeepEqualExplained, lines 182-186: the root frame returned.
Finish ==
    /\ pc = "run" /\ ret.st # "none" /\ stack = <<>>
    /\ UNCHANGED <<heap, x, y, stack, visited, entered, calls, first>>
    /\ result' = IF ret.st = "err" THEN [ret EXCEPT !.msg = <<"values">> \o ret.msg]
                 ELSE ret
    /\ ret' = NoReturn
    /\ pc' = "done"

\* The caller calls DeepEqualExplained again on the same arguments; nothing
\* of the first call is left but what it returned.
Recall ==
    /\ pc = "done" /\ calls = 1
    /\ calls' = 2
    /\ first' = result
    /\ result' = NoReturn
    /\ visited' = {}
    /\ entered' = <<>>
    /\ pc' = "call"
    /\ UNCHANGED <<heap, x, y, stack, ret>>

-----------------------------------------------------------------------------
(* The arguments the walk is run on.  Each family is a Go program's        *)
(* variables laid out in memory, with the values and links drawn from      *)
(* small sets, and the pairs of arguments a test would pass.               *)

\* The state DeepEqualExplained(a, b) is called in, with memory h.
Start(h, a, b) ==
    /\ heap = h /\ x = a /\ y = b
    /\ pc = "call"
    /\ stack = <<>>
    /\ ret = NoReturn
    /\ visited = {}
    /\ result = NoReturn
    /\ entered = <<>>
    /\ calls = 1
    /\ first = NoReturn

(* type Node struct { Val float64; Next *Node }                             *)
(* Node k is the struct at NodeAddr(k), followed by its two fields; after  *)
(* the nodes comes one *Node variable per node, pointing to it.            *)
NodeAddr(k) == 3 * k - 2
NodeAddrs == {NodeAddr(k) : k \in 1..NumNodes}
NodePtr(k) == 3 * NumNodes + k
NodeHeap(vals, nexts) ==
    [a \in 1..(4 * NumNodes) |->
        IF a > 3 * NumNodes THEN PtrCell("*Node", NodeAddr(a - 3 * NumNodes))
        ELSE LET k == (a + 2) \div 3
                 r == a - NodeAddr(k)
             IN  CASE r = 0 -> StructCell("Node", <<a + 1, a + 2>>)
                   [] r = 1 -> FloatCell("float64", vals[k])
                   [] r = 2 -> PtrCell("*Node", nexts[k])]
NodeRoots == NodeAddrs \cup {NodePtr(k) : k \in 1..NumNodes}
NodeInputs ==
    \E vals \in [1..NumNodes -> Floats], nexts \in [1..NumNodes -> {0} \cup NodeAddrs],
       a \in NodeRoots, b \in NodeRoots :
        Start(NodeHeap(vals, nexts), a, b)

(* var back [BackLen]T; sx, sy are slices of it (or nil), px = &sx, py = &sy, *)
(* for T = float64 and T = float32.  The arguments are sx and sy, px and   *)
(* py, or two elements of back.                                            *)
Views ==
    {[data |-> 0, len |-> 0]} \cup
    {v \in [data : 1..BackLen, len : 0..BackLen] : v.data + v.len <= BackLen + 1}
SliceHeap(T, vals, dx, dy) ==
    [a \in 1..(BackLen + 4) |->
        CASE a <= BackLen -> FloatCell(T, vals[a])
          [] a = BackLen + 1 -> SliceCell("[]" \o T, dx.data, dx.len)
          [] a = BackLen + 2 -> SliceCell("[]" \o T, dy.data, dy.len)
          [] a = BackLen + 3 -> PtrCell("*[]" \o T, BackLen + 1)
          [] a = BackLen + 4 -> PtrCell("*[]" \o T, BackLen + 2)]
SliceRoots ==
    {<<BackLen + 1, BackLen + 2>>, <<BackLen + 3, BackLen + 4>>,
     <<BackLen + 4, BackLen + 3>>, <<1, 1>>, <<1, BackLen>>}
SliceInputs ==
    \E T \in {"float64", "float32"}, vals \in [1..BackLen -> Floats],
       dx \in Views, dy \in Views, r \in SliceRoots :
        Start(SliceHeap(T, vals, dx, dy), r[1], r[2])

(* var a1, a2 [ArrLen]float64; p1 = &a1, p2 = &a2.  a1 holds ones.          *)
ArrAddr(k) == (k - 1) * (ArrLen + 1) + 1
ArrKids(k) == [i \in 1..ArrLen |-> ArrAddr(k) + i]
ArrayHeap(vals) ==
    [a \in 1..(2 * ArrLen + 4) |->
        CASE a = ArrAddr(1) -> ArrayCell("[N]float64", ArrKids(1))
          [] a = ArrAddr(2) -> ArrayCell("[N]float64", ArrKids(2))
          [] a > ArrAddr(1) /\ a < ArrAddr(2) -> FloatCell("float64", Num(1))
          [] a > ArrAddr(2) /\ a <= 2 * ArrLen + 2 ->
                FloatCell("float64", vals[a - ArrAddr(2)])
          [] a = 2 * ArrLen + 3 -> PtrCell("*[N]float64", ArrAddr(1))
          [] a = 2 * ArrLen + 4 -> PtrCell("*[N]float64", ArrAddr(2))]
ArrayRoots == {ArrAddr(1), ArrAddr(2), 2 * ArrLen + 3, 2 * ArrLen + 4}
ArrayInputs ==
    \E vals \in [1..ArrLen -> Floats], a \in ArrayRoots, b \in ArrayRoots :
        Start(ArrayHeap(vals), a, b)

(* type M map[float64]interface{}                                          *)
(* Two map objects h1, h2 (cells 1, 2) whose entries are drawn from a pool *)
(* of interface values; m1 = h1, m2 = h2 and a nil M (cells 3, 4, 5);      *)
(* &m1, &m2 (cells 6, 7).  The pool: interfaces holding 1.0, 2.0,          *)
(* float32(1), a func, nothing, m1, m2, &m1, &m2.                          *)
MapFixed ==
    <<HmapCell({}), HmapCell({}),
      MapCell("M", 1), MapCell("M", 2), MapCell("M", 0),
      PtrCell("*M", 3), PtrCell("*M", 4),
      FloatCell("float64", Num(1)), FloatCell("float64", Num(2)),
      FloatCell("float32", Num(1)), FuncCell(1),
      IfaceCell(8), IfaceCell(9), IfaceCell(10), IfaceCell(11), IfaceCell(0),
      IfaceCell(3), IfaceCell(4), IfaceCell(6), IfaceCell(7)>>
MapHeap(e1, e2) ==
    [a \in 1..Len(MapFixed) |->
        CASE a = 1 -> HmapCell(e1)
          [] a = 2 -> HmapCell(e2)
          [] OTHER -> MapFixed[a]]
\* The maps over the keys ks with values from pool: every partial function.
Entries(ks, pool) ==
    UNION {{{<<Num(k), f[k]>> : k \in d} : f \in [d -> pool]} : d \in SUBSET ks}
LeafPool == 12..16
LinkPool == {12} \cup 17..20
\* An entry under a NaN key: no lookup finds it.
NaNEntries == {{}, {<<NaN(1), 12>>}}
MapRoots == {<<3, 4>>, <<4, 3>>, <<3, 3>>, <<3, 5>>, <<5, 3>>, <<6, 7>>}
MapInputs ==
    \E pool \in {LeafPool, LinkPool} :
    \E e1 \in Entries(FloatNums, pool), e2 \in Entries(FloatNums, pool),
       n \in NaNEntries, r \in MapRoots :
        Start(MapHeap(e1, e2 \cup n), r[1], r[2])

(* type P *P: two variables p1, p2, each nil or pointing to either.        *)
(* var fnil, f, g func(): a nil func and two funcs.                        *)
(* An argument is one of these values or the nil interface.                *)
MiscHeap(t1, t2) ==
    <<PtrCell("P", t1), PtrCell("P", t2), FuncCell(0), FuncCell(1), FuncCell(2)>>
MiscInputs ==
    \E t1 \in 0..2, t2 \in 0..2, a \in 0..5, b \in 0..5 : Start(MiscHeap(t1, t2), a, b)

(* type S []S: two variables s1, s2, each nil or a slice of the array      *)
(* [2]S that the two variables themselves form.                            *)
SelfViews == {v \in Views : v.data <= 2 /\ v.data + v.len <= 3}
SelfHeap(d1, d2) == <<SliceCell("S", d1.data, d1.len), SliceCell("S", d2.data, d2.len)>>
SelfInputs ==
    \E d1 \in SelfViews, d2 \in SelfViews, a \in 1..2, b \in 1..2 :
        Start(SelfHeap(d1, d2), a, b)


Init ==
    NodeInputs \/ SliceInputs \/ ArrayInputs \/ MapInputs \/ MiscInputs \/ SelfInputs

Next == Call \/ Enter \/ Descend \/ Resume \/ Finish

Spec == Init /\ [][Next]_vars

\* Two calls on the same maps.
InitTwice == MapInputs
NextTwice == Call \/ Enter \/ Descend \/ Resume \/ Finish \/ Recall
SpecTwice == InitTwice /\ [][NextTwice]_vars

-----------------------------------------------------------------------------
(* What the properties below speak of.                                     *)

\* The cells a value holds or refers to directly.
Kids(a) ==
    LET c == heap[a]
    IN  CASE c.kind \in {"Struct", "Array"} -> {c.kids[i] : i \in 1..Len(c.kids)}
          [] c.kind \in {"Ptr", "Interface"} -> {c.ptr} \ {0}
          [] c.kind = "Slice" -> {c.ptr + i : i \in 0..(c.len - 1)}
          [] c.kind = "Map" -> IF c.ptr = 0 THEN {} ELSE {e[2] : e \in heap[c.ptr].ents}
          [] OTHER -> {}

RECURSIVE ReachFrom(_)
ReachFrom(S) ==
    LET more == S \cup UNION {Kids(a) : a \in S}
    IN  IF more = S THEN S ELSE ReachFrom(more)

\* Every cell of the value of argument a (none for the nil interface).
Reach(a) == IF a = 0 THEN {} ELSE ReachFrom({a})

\* No cell of the value is reached from itself.
Acyclic(a) == \A c \in Reach(a) : c \notin ReachFrom(Kids(c))

IsFloat(c) == c.kind \in {"Float64", "Float32"}

\* The value has a NaN leaf of either width somewhere.
HasNaN(a) == \E c \in Reach(a) : IsFloat(heap[c]) /\ IsNaN(heap[c].val)

\* The value has a float64 NaN leaf somewhere.
HasNaN64(a) == \E c \in Reach(a) : heap[c].kind = "Float64" /\ IsNaN(heap[c].val)

\* The value has a func that is not nil somewhere.
HasFunc(a) == \E c \in Reach(a) : heap[c].kind = "Func" /\ heap[c].ptr # 0

\* The frame compares two values of one type, of a kind in kinds.
Compares(f, kinds) ==
    /\ IsValid(f.v1) /\ IsValid(f.v2)
    /\ Type(f.v1) = Type(f.v2)
    /\ Kind(f.v1) \in kinds

\* The return statements by the outcome they report (section 7 of the spec).
AbsenceSites == {75, 77, 97, 122, 124}
LengthSites == {81, 128}
KeyMissingSites == {137, 139}
NaNSites == {154, 156}
EntrySites == {170, 172, 174, 180}

\* How many times p occurs in the sequence seq.
Count(seq, p) == Cardinality({i \in 1..Len(seq) : seq[i] = p})

-----------------------------------------------------------------------------
(* C1 *)

\* C1: a call of DeepEqualExplained terminates on every pair of finite values
\* of one type, cyclic ones included: the recursion never grows until the
\* goroutine's stack is exhausted.
C1_Terminates == pc # "overflow"

-----------------------------------------------------------------------------
(* C2 *)

\* The node an argument of the Node inputs denotes: the struct itself or the
\* struct the pointer points to.
NodeOf(a) == IF heap[a].kind = "Ptr" THEN heap[a].ptr ELSE a

\* Node n is Node{Val: v, Next: &n}.
SelfRef(n) == n # 0 /\ heap[n].kind = "Struct" /\ heap[heap[n].kids[2]].ptr = n

\* The arguments are two distinct self-referential Nodes with the same Val
\* (not a NaN), both passed as structs or both as pointers.
C2_Case ==
    /\ heap[1].kind = "Struct"
    /\ heap[x].kind = heap[y].kind
    /\ NodeOf(x) # NodeOf(y)
    /\ SelfRef(NodeOf(x)) /\ SelfRef(NodeOf(y))
    /\ heap[heap[NodeOf(x)].kids[1]].val = heap[heap[NodeOf(y)].kids[1]].val
    /\ ~IsNaN(heap[heap[NodeOf(x)].kids[1]].val)

\* How many times the walk went into the fields of the two Nodes in memory.
C2_Descents ==
    Count(entered, <<Value(NodeOf(x), TRUE), Value(NodeOf(y), TRUE)>>)
    + Count(entered, <<Value(NodeOf(y), TRUE), Value(NodeOf(x), TRUE)>>)

\* C2: a self-referential Node compared with a distinct, structurally identical
\* self-referential Node is Equal; the call ends, and goes into the fields of
\* the pair of records at most once.
C2_SelfLoopEqual ==
    C2_Case =>
        /\ pc # "overflow"
        /\ C2_Descents <= 1
        /\ \A i \in 1..Len(entered) : Count(entered, entered[i]) = 1
        /\ pc = "done" => result.st = "nil"

\* The call on two such Nodes has returned, after going into the pair once.
C2_Witness == C2_Case /\ pc = "done" /\ C2_Descents = 1 /\ result.st = "nil"

-----------------------------------------------------------------------------
(* C3 *)

\* C3: when either argument has a floating-point NaN leaf somewhere, of
\* either width and behind whatever arrays, slices, maps, structs, pointers
\* or interfaces, DeepEqualExplained returns a divergence, never Equal, also
\* when the other argument has a NaN at the same place.
C3_NaNNeverEqual == (pc = "done" /\ (HasNaN(x) \/ HasNaN(y))) => result.st = "err"

-----------------------------------------------------------------------------
(* C4 *)

\* C4: DeepEqualExplained(v, v) is Equal for every acyclic value v, also one
\* that holds funcs, NaN leaves, nil slices or maps, or interfaces.
C4_Reflexive == (pc = "done" /\ x = y /\ Acyclic(x)) => result.st = "nil"

\* C4, amended: DeepEqualExplained(v, v) is Equal for every acyclic value v
\* that holds no float64 NaN leaf and no func that is not nil.
C4_ReflexiveAmended ==
    (pc = "done" /\ x = y /\ Acyclic(x) /\ ~HasNaN64(x) /\ ~HasFunc(x))
    => result.st = "nil"

\* An acyclic value without such leaves was compared with itself, child by child.
C4_Witness ==
    /\ pc = "done" /\ x = y /\ x # 0 /\ Acyclic(x) /\ ~HasNaN64(x) /\ ~HasFunc(x)
    /\ entered # <<>>
    /\ result.st = "nil"

-----------------------------------------------------------------------------
(* C5 *)

\* C5: two calls on the same arguments return the same result and the same
\* message, also for maps that differ at more than one key.
C5_Deterministic ==
    (calls = 2 /\ pc = "done") => (result.st = first.st /\ result.msg = first.msg)

-----------------------------------------------------------------------------
(* C6 *)

\* The frame compares two slices or two maps that are not nil and have the
\* same Pointer(): the same storage.
SameStorage(f) ==
    /\ Compares(f, {"Slice", "Map"})
    /\ ~IsNil(f.v1) /\ ~IsNil(f.v2)
    /\ Pointer(f.v1) = Pointer(f.v2)

\* C6: the comparison of two slices or maps over the same storage is Equal at
\* once, whatever they hold and whatever their lengths: the frame returns nil
\* before its loop.
C6_SameStorageEqual ==
    (ret.st # "none" /\ SameStorage(ret.from))
    => (ret.st = "nil" /\ ret.from.st = "enter")

\* C6, amended: the comparison of two slices or maps of the same length over
\* the same storage is Equal at once, whatever they hold; two slices of
\* different lengths over the same storage are a length mismatch.
C6_SameStorageAmended ==
    (ret.st # "none" /\ SameStorage(ret.from))
    => /\ ret.from.st = "enter" /\ ret.own
       /\ IF ValueLen(ret.from.v1) = ValueLen(ret.from.v2)
          THEN ret.st = "nil"
          ELSE ret.st = "err" /\ ret.site = 81

\* Two slices of the same length over the same storage, whose first element
\* is a float64 NaN, compared Equal at line 84.
C6_Witness ==
    /\ ret.st = "nil" /\ ret.site = 84 /\ SameStorage(ret.from)
    /\ ValueLen(ret.from.v1) >= 1
    /\ heap[Pointer(ret.from.v1)].kind = "Float64"
    /\ IsNaN(heap[Pointer(ret.from.v1)].val)

-----------------------------------------------------------------------------
(* C7 *)

\* The reason of an absence mismatch that names the side that is nil.
NilReason(kind, side) ==
    IF kind = "Slice" THEN
        IF side = "x" THEN " in x is nil but in y is not"
        ELSE " in y is nil but in x is not"
    ELSE
        IF side = "x" THEN " are not equal, where in x is nil but in y is not"
        ELSE " are not equal, where in y is nil but in x is not"

\* C7: for two slices or two maps, nil against not nil is an absence mismatch
\* that names the nil side, whatever the lengths (a nil slice against an
\* empty one too); otherwise different lengths are a length mismatch; both
\* are reported before any element or key is looked at.
C7_OrderedChecks ==
    (ret.st # "none" /\ Compares(ret.from, {"Slice", "Map"}))
    => LET v1 == ret.from.v1
           v2 == ret.from.v2
       IN  /\ IsNil(v1) # IsNil(v2) =>
                /\ ret.st = "err" /\ ret.own /\ ret.from.st = "enter"
                /\ ret.site \in AbsenceSites
                /\ ret.msg = <<NilReason(Kind(v1), IF IsNil(v1) THEN "x" ELSE "y")>>
           /\ (IsNil(v1) = IsNil(v2) /\ ValueLen(v1) # ValueLen(v2)) =>
                /\ ret.st = "err" /\ ret.own /\ ret.from.st = "enter"
                /\ ret.site \in LengthSites

\* A nil slice was compared with an empty slice that is not nil.
C7_Witness ==
    /\ ret.st = "err" /\ Compares(ret.from, {"Slice"})
    /\ IsNil(ret.from.v1) /\ ~IsNil(ret.from.v2) /\ ValueLen(ret.from.v2) = 0
    /\ ret.site = 75

-----------------------------------------------------------------------------
(* C8 *)

\* The locator the claim gives for a step.
ClaimLocator(s) ==
    CASE s.t = "index" -> "[" \o ToString(s.i) \o "]"
      [] s.t = "field" -> "." \o s.name
      [] s.t = "key" -> "[" \o Render(s.k) \o "]"
      [] s.t = "ptr" -> "(Pointer)"
      [] s.t = "iface" -> "(Interface)"

\* The same with the locator of a pointer as the code writes it.
AmendedLocator(s) == IF s.t = "ptr" THEN "(Ptr)" ELSE ClaimLocator(s)

\* The walker reported a divergence.
WalkerDiverged == pc = "done" /\ result.st = "err" /\ result.site \notin EntrySites

-----------------------------------------------------------------------------
(* C9 *)

\* The frame compares two maps that are not nil, are different map objects
\* and do not have the same keys.
KeySetsDiffer(f) ==
    /\ Compares(f, {"Map"})
    /\ ~IsNil(f.v1) /\ ~IsNil(f.v2)
    /\ Pointer(f.v1) # Pointer(f.v2)
    /\ MapKeys(f.v1) # MapKeys(f.v2)

\* The frame returns the error of the comparison of the values of a key that
\* both maps have.
AtCommonKey(r) ==
    /\ ~r.own
    /\ r.from.cur.t = "key"
    /\ r.from.cur.k \in MapKeys(r.from.v1) \cap MapKeys(r.from.v2)

\* C9: two such maps never compare Equal: with different sizes the result is
\* a length mismatch, with equal sizes a missing key that names the second
\* side or a divergence of the values of a common key.
C9_KeySets ==
    (ret.st # "none" /\ KeySetsDiffer(ret.from))
    => /\ ret.st = "err"
       /\ IF ValueLen(ret.from.v1) # ValueLen(ret.from.v2)
          THEN ret.own /\ ret.site = 128
          ELSE (ret.own /\ ret.site = 139) \/ AtCommonKey(ret)

\* The cycle detector answered for the frame (line 57).
CutShort(r) == r.own /\ r.site = 57

\* The frame found a NaN key of the first map, which no lookup finds.
NaNKeyMissing(r) ==
    /\ r.own /\ r.site = 137
    /\ IsNaN(r.pos[Len(r.pos)].k)

\* C9, amended: two such maps, when the cycle detector does not answer for
\* the pair, never compare Equal: with different sizes the result is a length
\* mismatch, with equal sizes a missing key that names the second side, a
\* missing key that names the first side when the key is a NaN, or a
\* divergence of the values of a common key.  When the cycle detector answers
\* (the pair is already being compared further up), that descent is Equal.
C9_KeySetsAmended ==
    (ret.st # "none" /\ KeySetsDiffer(ret.from))
    => IF CutShort(ret) THEN ret.st = "nil"
       ELSE /\ ret.st = "err"
            /\ IF ValueLen(ret.from.v1) # ValueLen(ret.from.v2)
               THEN ret.own /\ ret.site = 128
               ELSE \/ ret.own /\ ret.site = 139
                    \/ NaNKeyMissing(ret)
                    \/ AtCommonKey(ret)

\* Two maps of one size and different keys: a key of the first is not in the second.
C9_Witness ==
    /\ ret.st = "err" /\ KeySetsDiffer(ret.from)
    /\ ValueLen(ret.from.v1) = ValueLen(ret.from.v2)
    /\ ret.own /\ ret.site = 139

-----------------------------------------------------------------------------
(* C10 *)

\* The frame is past the cycle detector.
PastDetector(f) == f.st \in {"loop", "wait"}

\* The frame at the top of the stack is about to run the cycle detector on a
\* pair whose key is in the set.
AtSeenPair ==
    /\ pc = "run" /\ ret.st = "none" /\ stack # <<>> /\ Top.st = "enter"
    /\ IsValid(Top.v1) /\ IsValid(Top.v2) /\ Type(Top.v1) = Type(Top.v2)
    /\ Tracked(Top.v1, Top.v2)
    /\ VisitKey(Top.v1, Top.v2) \in visited

\* C10: within a call the visited set starts empty and only grows; every key
\* has its lower address first; the key of an addressable array, slice,
\* struct or map pair is in the set before any child of the pair is compared;
\* a descent into a pair whose key is in the set returns Equal without
\* comparing a child.
C10_VisitedDiscipline ==
    /\ [](\A k \in visited : k[1] <= k[2])
    /\ [](\A i \in 1..Len(stack) :
            (PastDetector(stack[i]) /\ Tracked(stack[i].v1, stack[i].v2))
            => VisitKey(stack[i].v1, stack[i].v2) \in visited)
    /\ [][(pc = "call" /\ pc' = "run") => visited' = {}]_vars
    /\ [][pc = "run" => visited \subseteq visited']_vars
    /\ [][AtSeenPair => (ret'.st = "nil" /\ stack' = Pop /\ entered' = entered)]_vars

\* The walk came back to a pair whose key it had recorded, with the higher
\* address on the first side, and returned Equal.
C10_Witness ==
    /\ ret.st = "nil" /\ ret.own /\ ret.site = 57
    /\ ret.from.v1.node > ret.from.v2.node
    /\ VisitKey(ret.from.v1, ret.from.v2) \in visited

=============================================================================
